---- MODULE Spec2Model ----
(***************************************************************************)
(* Model of the radar ambiguity calculator: the thread fan-out/join of     *)
(* mooore_penrose_solution_par (functions.py) and the recursive            *)
(* plane-intersection search of radarconf.py with its helpers.             *)
(*                                                                         *)
(* Arithmetic.  The program works in double precision; the model works in  *)
(* exact rational arithmetic on geometries whose baselines lie on the x or *)
(* y axis, with lengths of 1/2 or 1 wavelength.  On these geometries every *)
(* quantity of the search is a rational number:                            *)
(*   - coordinates and R are held in half wavelengths (integers);          *)
(*   - K is held as K2 = 2*K;                                              *)
(*   - the entries of b are integers;                                      *)
(*   - pinv(W), the solution W+.b and the check W.W+.b - b are held        *)
(*     multiplied by Scale;                                                *)
(*   - pinv_norm and the norm of a solution are held as the SQUARE of the  *)
(*     norm, multiplied by Scale^2, so that "norm < tol" is decided        *)
(*     without a square root.                                              *)
(* Indexes into the program's arrays are kept 0-based, as in the source;   *)
(* the arrays themselves are TLA+ sequences, read with At(s, i).           *)
(***************************************************************************)
EXTENDS Integers, Sequences, FiniteSets, TLC

\* ---------------------------------------------------------------- bounds
MaxSn == 4
MaxNiter == 4
MaxPnum == 3

\* ------------------------------------------------------------- variables
VARIABLES
    \* --- radarconf.py (the search driver)
    pc, error, Sn, xycoords, mp_tol, R, K, n0, k_length,
    PERMS_J, W_matrix, pinv_norm, intersection_line,
    intersections_ind, intersections_n, intersections, intersections_integers,
    SURVIVORS, ii, k0, cutoff_ph_ang, cap_intersections_of_slines,
    \* --- mooore_penrose_solution_par and its workers
    ppc, W, Wpinv, b_set, niter, pnum, subset, job_id, i, threads, joined,
    pinv_norm_set, intersection_line_set, passes, writes

searchVars ==
    << pc, error, Sn, xycoords, mp_tol, R, K, n0, k_length,
       PERMS_J, W_matrix, pinv_norm, intersection_line,
       intersections_ind, intersections_n, intersections, intersections_integers,
       SURVIVORS, ii, k0, cutoff_ph_ang, cap_intersections_of_slines >>

parVars ==
    << ppc, W, Wpinv, b_set, niter, pnum, subset, job_id, i, threads, joined,
       pinv_norm_set, intersection_line_set, passes, writes >>

vars == << searchVars, parVars >>

\* --------------------------------------------------------------- helpers
Abs(x) == IF x < 0 THEN 0 - x ELSE x

Max(a, b) == IF a < b THEN b ELSE a

RECURSIVE Fact(_)
Fact(n) == IF n <= 1 THEN 1 ELSE n * Fact(n - 1)

\* Every denominator the pseudo-inverse produces divides Scale.
Scale == Fact(MaxSn)

\* s[i] with the source's 0-based index
At(s, ix) == s[ix + 1]

Range(s) == { s[p] : p \in 1..Len(s) }

RECURSIVE SumTo(_, _)
SumTo(f, n) == IF n = 0 THEN 0 ELSE f[n] + SumTo(f, n - 1)

\* np.dot of two vectors
Dot(u, v) == SumTo([c \in 1..Len(u) |-> u[c] * v[c]], Len(u))

\* A sequence given as a function, as the tuple of its values.
Tuple(s) == s \o << >>

\* np.dot of a matrix (sequence of rows) and a vector
MatVec(M, v) == Tuple([r \in 1..Len(M) |-> Dot(M[r], v)])

\* np.sum(v ** 2): the square of np.linalg.norm(v)
NormSq(v) == Dot(v, v)

\* np.zeros
Zeros(n) == [p \in 1..n |-> 0]

\* np.where(mask)[0]: the 0-based positions of the true entries, ascending
Where(mask) ==
    SelectSeq([p \in 1..Len(mask) |-> p - 1], LAMBDA ix : mask[ix + 1])

\* range(1, n + 1)
Range1(n) == Tuple([p \in 1..n |-> p])

\* itertools.product(A, B): every pair, the last iterable running fastest
Product2(A, B) ==
    Tuple([p \in 1..(Len(A) * Len(B)) |->
        << A[((p - 1) \div Len(B)) + 1], B[((p - 1) % Len(B)) + 1] >>])

\* ------------------------------------------------------- linear algebra
\* np.linalg.pinv(W) for a matrix whose rows are signed unit vectors of the
\* x, y or z axis: W^T.W is diagonal, holding for each column the number of
\* rows on that axis, so W+ = diag(1/count) . W^T (0 for an empty column).
\* The result has 3 rows and Len(W) columns and is multiplied by Scale.
pinv(Wm) ==
    LET cnt(c) == SumTo([r \in 1..Len(Wm) |-> Wm[r][c] * Wm[r][c]], Len(Wm))
    IN  Tuple([c \in 1..3 |->
            Tuple([r \in 1..Len(Wm) |->
                IF cnt(c) = 0 THEN 0 ELSE (Scale * Wm[r][c]) \div cnt(c)])])

\* np.linalg.multi_dot([W, Wpinv, b]) - b, multiplied by Scale
solution_check(Wm, Wp, b) ==
    LET wx == MatVec(Wm, MatVec(Wp, b))
    IN  Tuple([r \in 1..Len(b) |-> wx[r] - Scale * b[r]])

ptr_body_unchecked(Wm, Wp, b) ==
    << MatVec(Wp, b), NormSq(MatVec(Wm, MatVec(Wp, b))) >>

\* The body of the worker's loop for one candidate: the pair
\* (intersection_line_set[:, ind], pinv_norm_set[ind]) it stores.
ptr_body(Wm, Wp, b) ==
    << MatVec(Wp, b), NormSq(solution_check(Wm, Wp, b)) >>

\* mooore_penrose_solution(W, b): (intersection_line, pinv_norm); the
\* pseudo-inverse is recomputed from W at each use.
mooore_penrose_solution(Wm, b) ==
    LET Wp == pinv(Wm)
    IN  << MatVec(Wp, b), NormSq(solution_check(Wm, Wp, b)) >>

\* ------------------------------------------ mooore_penrose_solution_par
\* The W matrix and the b columns the parallel solver is exercised on: the
\* unit normals of baselines along +x, -x and +y; a b that the three planes
\* satisfy together and one that they do not.
WSet == { << <<1, 0, 0>>, <<0 - 1, 0, 0>>, <<0, 1, 0>> >> }

BCols == << <<1, 0 - 1, 2>>, <<2, 0, 2>> >>

\* The b_set arrays of n columns: the columns of BCols in turn, from either.
BSets(n) == { [x \in 1..n |-> BCols[((x + d) % 2) + 1]] : d \in 0..1 }

SeqsOf(S, n) == [1..n -> S]

subset_floor(n, p) == n \div p

\* lines 116-119
subset_of(n, p) == IF n % p = 0 THEN n \div p ELSE (n \div p) + 1

job_range_unclipped(j, sub, n) == << j * sub, (j + 1) * sub >>

\* lines 123-126: range(lo, hi) as the pair <<lo, hi>>
job_range(j, sub, n) ==
    IF (j + 1) * sub > n THEN << j * sub, n >> ELSE << j * sub, (j + 1) * sub >>

\* the indexes of range(lo, hi)
RangeSet(rg) == { x \in 0..Max(rg[2] - 1, 0) : rg[1] <= x /\ x < rg[2] }

ParIdle ==
    /\ ppc = "idle"
    /\ W = << >>
    /\ Wpinv = << >>
    /\ b_set = << >>
    /\ niter = 0
    /\ pnum = 1
    /\ subset = 0
    /\ job_id = 0
    /\ i = 0
    /\ threads = << >>
    /\ joined = 0
    /\ pinv_norm_set = << >>
    /\ intersection_line_set = << >>
    /\ passes = 0
    /\ writes = << >>

SearchIdle ==
    /\ pc = "idle"
    /\ error = "none"
    /\ Sn = 0
    /\ xycoords = << >>
    /\ mp_tol = <<1, 10>>
    /\ R = << >>
    /\ K = << >>
    /\ n0 = << >>
    /\ k_length = << >>
    /\ PERMS_J = << >>
    /\ W_matrix = << >>
    /\ pinv_norm = << >>
    /\ intersection_line = << >>
    /\ intersections_ind = << >>
    /\ intersections_n = 0
    /\ intersections = << >>
    /\ intersections_integers = << >>
    /\ SURVIVORS = << >>
    /\ ii = 0
    /\ k0 = << >>
    /\ cutoff_ph_ang = "0"
    /\ cap_intersections_of_slines = << >>

\* The call mooore_penrose_solution_par(W, b_set, pnum, niter,
\* intersection_line_set, pinv_norm_set) with buffers of niter zeroed slots
\* and a b_set of ncols columns.
ParCall(ncols) ==
    /\ ppc = "begin"
    /\ W \in WSet
    /\ Wpinv = << >>
    /\ niter \in 0..MaxNiter
    /\ pnum \in 1..MaxPnum
    /\ b_set \in BSets(ncols)
    /\ subset = 0
    /\ job_id = 0
    /\ i = 0
    /\ threads = << >>
    /\ joined = 0
    /\ pinv_norm_set = Zeros(niter)
    /\ intersection_line_set = [p \in 1..niter |-> <<0, 0, 0>>]
    /\ passes = 0
    /\ writes = Zeros(niter)

\* a stage's call: one column of b_set per candidate
InitPar ==
    /\ SearchIdle
    /\ \E n \in 0..MaxNiter : niter = n /\ ParCall(n)

\* a call whose b_set may hold fewer columns than niter
InitParFail ==
    /\ SearchIdle
    /\ \E n \in 0..MaxNiter : \E m \in 0..n : niter = n /\ ParCall(m)

\* lines 111-119
ParBegin ==
    /\ ppc = "begin"
    /\ Wpinv' = pinv(W)
    /\ threads' = << >>
    /\ job_id' = 0
    /\ subset' = subset_of(niter, pnum)
    /\ ppc' = "while"
    /\ UNCHANGED << W, b_set, niter, pnum, i, joined, pinv_norm_set,
                    intersection_line_set, passes, writes >>
    /\ UNCHANGED searchVars

\* line 121: the test of the while loop; a true test enters the for loop.
\* passes counts the passes of the loop and is capped, so that a loop that
\* would not end has finitely many states.
ParWhile ==
    /\ ppc = "while"
    /\ IF job_id * subset < niter
       THEN /\ passes < MaxPnum + 2
            /\ ppc' = "for"
            /\ i' = 0
            /\ passes' = passes + 1
            /\ joined' = joined
       ELSE /\ ppc' = "join"
            /\ joined' = 0
            /\ UNCHANGED << i, passes >>
    /\ UNCHANGED << W, Wpinv, b_set, niter, pnum, subset, job_id, threads,
                    pinv_norm_set, intersection_line_set, writes >>
    /\ UNCHANGED searchVars

\* lines 122-138: one iteration of the for loop starts one thread
ParFor ==
    /\ ppc = "for"
    /\ IF i < pnum
       THEN LET rg == job_range(job_id, subset, niter)
            IN  /\ threads' = Append(threads,
                        [lo |-> rg[1], hi |-> rg[2], ind |-> rg[1],
                         st |-> "running"])
                /\ job_id' = job_id + 1
                /\ i' = i + 1
                /\ ppc' = ppc
       ELSE /\ ppc' = "while"
            /\ UNCHANGED << threads, job_id, i >>
    /\ UNCHANGED << W, Wpinv, b_set, niter, pnum, subset, joined,
                    pinv_norm_set, intersection_line_set, passes, writes >>
    /\ UNCHANGED searchVars

\* lines 88-93: one step of thread t, the target mooore_penrose_solution_ptr.
\* b_set[:, ind] raises IndexError when b_set has no column ind; an exception
\* that leaves the target ends the thread.
WorkerStep(t) ==
    /\ t \in 1..Len(threads)
    /\ threads[t].st = "running"
    /\ LET th == threads[t]
       IN  IF th.ind >= th.hi
           THEN /\ threads' = [threads EXCEPT ![t].st = "done"]
                /\ UNCHANGED << pinv_norm_set, intersection_line_set, writes >>
           ELSE IF th.ind >= Len(b_set)
           THEN /\ threads' = [threads EXCEPT ![t].st = "failed"]
                /\ UNCHANGED << pinv_norm_set, intersection_line_set, writes >>
           ELSE LET out == ptr_body(W, Wpinv, At(b_set, th.ind))
                IN  /\ pinv_norm_set' =
                           [pinv_norm_set EXCEPT ![th.ind + 1] = out[2]]
                    /\ intersection_line_set' =
                           [intersection_line_set EXCEPT ![th.ind + 1] = out[1]]
                    /\ writes' = [writes EXCEPT ![th.ind + 1] = @ + 1]
                    /\ threads' = [threads EXCEPT ![t].ind = @ + 1]
    /\ UNCHANGED << ppc, W, Wpinv, b_set, niter, pnum, subset, job_id, i,
                    joined, passes >>
    /\ UNCHANGED searchVars

\* any started thread may take the next step
Worker == \E t \in 1..Len(threads) : WorkerStep(t)

ParJoinNoWait ==
    /\ ppc = "join"
    /\ IF joined < Len(threads)
       THEN /\ joined' = joined + 1
            /\ ppc' = ppc
       ELSE /\ ppc' = "returned"
            /\ joined' = joined
    /\ UNCHANGED << W, Wpinv, b_set, niter, pnum, subset, job_id, i, threads,
                    pinv_norm_set, intersection_line_set, passes, writes >>
    /\ UNCHANGED searchVars

\* lines 140-141: t.join() returns once thread t has ended, however it ended
ParJoin ==
    /\ ppc = "join"
    /\ IF joined < Len(threads)
       THEN /\ threads[joined + 1].st # "running"
            /\ joined' = joined + 1
            /\ ppc' = ppc
       ELSE /\ ppc' = "returned"
            /\ joined' = joined
    /\ UNCHANGED << W, Wpinv, b_set, niter, pnum, subset, job_id, i, threads,
                    pinv_norm_set, intersection_line_set, passes, writes >>
    /\ UNCHANGED searchVars

ParMain == ParBegin \/ ParWhile \/ ParFor \/ ParJoin

NextPar == ParMain \/ Worker

SpecPar == InitPar /\ [][NextPar]_vars

\* The interpreter keeps running the threads it holds: while the caller or a
\* worker can take a step, a step is taken.
SpecParFair == InitPar /\ [][NextPar]_vars /\ WF_vars(NextPar)

SpecParFail == InitParFail /\ [][NextPar]_vars

\* ------------------------------------------------- geometry (functions.py)
\* The result of 0/0 in linCoeff_cal, and of every operation on it.
NaN == 0 - 1

\* Sub-group centres the search is run on, in half wavelengths: half a
\* wavelength along +x, one wavelength along -y, or the origin (a baseline
\* of zero length).
Coords == { <<0, 0>>, <<1, 0>>, <<0, 0 - 2>> }

\* The residual tolerances the search is run with, as <<numerator,
\* denominator>>; <<1, 10>> is the value radarconf.py sets.
Tols == { <<1, 10>>, <<11, 10>> }

\* np.linalg.norm of a vector with at most one non-zero entry
Norm(v) == Abs(v[1]) + Abs(v[2]) + Abs(v[3])

\* R_cal: column j of R is (x_j, y_j, 0 * x_j)
R_cal(sensor_groups, xy) ==
    [j \in 1..sensor_groups |-> << xy[j][1], xy[j][2], 0 * xy[j][1] >>]

\* linCoeff_cal: sum(R ** 2) / norm(R) per column, as 2*K; 0/0 is NaN
linCoeff_cal(Rm) ==
    [j \in 1..Len(Rm) |->
        IF Norm(Rm[j]) = 0 THEN NaN ELSE NormSq(Rm[j]) \div Norm(Rm[j])]

\* radarconf.py line 65: n0 = floor(2 * K)
n0_cal(Km) == [j \in 1..Len(Km) |-> IF Km[j] = NaN THEN NaN ELSE Km[j]]

\* radarconf.py line 68: k_length = 2 * n0 + 1
k_length_cal(nm) ==
    [j \in 1..Len(nm) |-> IF nm[j] = NaN THEN NaN ELSE 2 * nm[j] + 1]

\* nvec_j: R[:, j] / norm(R[:, j])
nvec_j(j, Rm) == Tuple([c \in 1..3 |-> At(Rm, j)[c] \div Norm(At(Rm, j))])

\* p0_jk: (n0[j] + 1 - k) / K[j] / norm(R[:, j]) * R[:, j], in wavelengths
p0_jk(j, k, Rm, nm, Km) ==
    Tuple([c \in 1..3 |->
        (2 * (At(nm, j) + 1 - k) * At(Rm, j)[c])
            \div (At(Km, j) * Norm(At(Rm, j)))])

\* radarconf.py lines 100-103 and 169-173: the b vector of candidate cand
\* over the baselines I = 0..m-1
b_vector(cand, m, Rm, nm, Km) ==
    Tuple([r \in 1..m |->
        0 - Dot(nvec_j(r - 1, Rm), p0_jk(r - 1, cand[r], Rm, nm, Km))])

\* radarconf.py lines 85 and 158: the unit normals of baselines 0..m-1 as rows
W_of(m, Rm) == Tuple([r \in 1..m |-> nvec_j(r - 1, Rm)])

\* -------------------------------------------------------------- pruning
ResidualAbove(rsq, tol) ==
    rsq * tol[2] * tol[2] > tol[1] * tol[1] * Scale * Scale

\* pinv_norm < mp_tol, on the squared and scaled residual
ResidualBelow(rsq, tol) ==
    rsq * tol[2] * tol[2] < tol[1] * tol[1] * Scale * Scale

NormUpTo2(nsq) == nsq <= 4 * Scale * Scale

\* (norm <= 2) & (norm != 0), on the squared and scaled norm
NormInRange(nsq) == nsq <= 4 * Scale * Scale /\ nsq # 0

\* the integers of the survivors: sum over the components of R[:, j] * line
integers_cal(Rm, lines, ind) ==
    [j \in 1..Len(Rm) |-> [s \in 1..Len(ind) |-> Dot(Rm[j], At(lines, ind[s]))]]

\* intersections_cal(pinv_norm, PERMS_J, intersection_line, R, **kwargs);
\* kwargs is a function whose domain holds "norm" when the caller passes
\* it.  The tolerance is the function's own mp_tol = 0.1.
intersections_cal(pn, perms, lines, Rm, kwargs) ==
    LET tol == <<1, 10>>
        mask == [p \in 1..Len(pn) |->
                    IF "norm" \in DOMAIN kwargs
                    THEN ResidualBelow(pn[p], tol) /\ NormInRange(kwargs["norm"][p])
                    ELSE ResidualBelow(pn[p], tol)]
        ind == Where(mask)
    IN  [ indexes |-> ind,
          number |-> Len(ind),
          permutations |-> [s \in 1..Len(ind) |-> At(perms, ind[s])],
          integers |-> integers_cal(Rm, lines, ind) ]

permutations_create_all(permutations_base, ind, klen, permutation_index) ==
    Product2(permutations_base, Range1(At(klen, permutation_index)))

\* permutations_create: the product of the surviving rows of
\* permutations_base and range(1, k_length[permutation_index] + 1)
permutations_create(permutations_base, ind, klen, permutation_index) ==
    Product2([s \in 1..Len(ind) |-> At(permutations_base, ind[s])],
             Range1(At(klen, permutation_index)))

slines_intersections_strict(kv, ind, lines, sinc) ==
    LET cap == [p \in 1..Len(ind) |->
                   (kv[1] - At(lines, ind[p])[1]) * (kv[1] - At(lines, ind[p])[1])
                   + (kv[2] - At(lines, ind[p])[2]) * (kv[2] - At(lines, ind[p])[2])]
    IN  Where([p \in 1..Len(ind) |-> sinc > 0 /\ cap[p] < sinc * sinc])

\* slines_intersections: the positions p with
\* sqrt(sum((k0[0:2] - intersection_line[0:2, ind[p]]) ** 2)) <= sin(cutoff);
\* kv and lines are multiplied by Scale, sinc is Scale * sin(cutoff)
slines_intersections(kv, ind, lines, sinc) ==
    LET cap == [p \in 1..Len(ind) |->
                   (kv[1] - At(lines, ind[p])[1]) * (kv[1] - At(lines, ind[p])[1])
                   + (kv[2] - At(lines, ind[p])[2]) * (kv[2] - At(lines, ind[p])[2])]
    IN  Where([p \in 1..Len(ind) |-> sinc >= 0 /\ cap[p] <= sinc * sinc])

\* The cut-off angles the cap filter is run with, and Scale * np.sin of each.
Cutoffs == { "0", "pi/2", "-pi/2" }

SinScaled(a) ==
    CASE a = "0" -> 0
      [] a = "pi/2" -> Scale
      [] a = "-pi/2" -> 0 - Scale

\* The wave vectors the cap filter is run with, multiplied by Scale.
K0Set == { <<0, Scale, 0>>, <<0, 0, Scale>>, <<0 - Scale, 0, 0>> }

\* ------------------------------------------------ the driver (radarconf.py)
\* lines 17-54: the parameters are set; Sn does not count the last group,
\* the reference at the origin.
Init ==
    /\ ParIdle
    /\ pc = "start"
    /\ error = "none"
    /\ Sn \in 2..MaxSn
    /\ xycoords \in { Append(s, <<0, 0>>) : s \in SeqsOf(Coords, Sn) }
    /\ mp_tol \in Tols
    /\ R = << >>
    /\ K = << >>
    /\ n0 = << >>
    /\ k_length = << >>
    /\ PERMS_J = << >>
    /\ W_matrix = << >>
    /\ pinv_norm = << >>
    /\ intersection_line = << >>
    /\ intersections_ind = << >>
    /\ intersections_n = 0
    /\ intersections = << >>
    /\ intersections_integers = << >>
    /\ SURVIVORS = << >>
    /\ ii = 0
    /\ k0 = << >>
    /\ cutoff_ph_ang = "0"
    /\ cap_intersections_of_slines = << >>

\* lines 57-61: the Geometry Builder, R_cal followed by linCoeff_cal
GeometryBuilder ==
    /\ pc = "start"
    /\ R' = R_cal(Sn, xycoords)
    /\ K' = linCoeff_cal(R_cal(Sn, xycoords))
    /\ pc' = "geometry"
    /\ UNCHANGED << error, Sn, xycoords, mp_tol, n0, k_length, PERMS_J, W_matrix,
                    pinv_norm, intersection_line, intersections_ind,
                    intersections_n, intersections, intersections_integers,
                    SURVIVORS, ii, k0, cutoff_ph_ang,
                    cap_intersections_of_slines >>
    /\ UNCHANGED parVars

\* lines 65-68
LatticeBounds ==
    /\ pc = "geometry"
    /\ n0' = n0_cal(K)
    /\ k_length' = k_length_cal(n0_cal(K))
    /\ pc' = "lattice"
    /\ UNCHANGED << error, Sn, xycoords, mp_tol, R, K, PERMS_J, W_matrix,
                    pinv_norm, intersection_line, intersections_ind,
                    intersections_n, intersections, intersections_integers,
                    SURVIVORS, ii, k0, cutoff_ph_ang,
                    cap_intersections_of_slines >>
    /\ UNCHANGED parVars

\* line 74 evaluates int(k_length[0]), int(k_length[1]), int(k_length[2]) in
\* turn: an index past the end raises IndexError, int(nan) raises ValueError.
SeedError ==
    LET bad == { x \in 0..2 : x >= Len(k_length) \/ At(k_length, x) = NaN }
        first == CHOOSE x \in bad : \A y \in bad : x <= y
    IN  IF bad = {} THEN "none"
        ELSE IF first >= Len(k_length) THEN "IndexError" ELSE "ValueError"

\* itertools.product of the three ranges of line 74, each candidate a tuple
SeedCandidates(klen) ==
    LET p12 == Product2(Range1(At(klen, 0)), Range1(At(klen, 1)))
        p123 == Product2(p12, Range1(At(klen, 2)))
    IN  Tuple([p \in 1..Len(p123) |->
            << p123[p][1][1], p123[p][1][2], p123[p][2] >>])

\* lines 72-88: the candidates of the first three baselines, W and the
\* zeroed result buffers
SeedEnumerate ==
    /\ pc = "lattice"
    /\ IF SeedError # "none"
       THEN /\ pc' = "crashed"
            /\ error' = SeedError
            /\ UNCHANGED << PERMS_J, W_matrix, pinv_norm, intersection_line >>
       ELSE \E cands \in { SeedCandidates(k_length) } :
            /\ PERMS_J' = cands
            /\ W_matrix' = W_of(3, R)
            /\ pinv_norm' = Zeros(Len(cands))
            /\ intersection_line' = [p \in 1..Len(cands) |-> <<0, 0, 0>>]
            /\ pc' = "seed_enumerated"
            /\ error' = error
    /\ UNCHANGED << Sn, xycoords, mp_tol, R, K, n0, k_length, intersections_ind,
                    intersections_n, intersections, intersections_integers,
                    SURVIVORS, ii, k0, cutoff_ph_ang,
                    cap_intersections_of_slines >>
    /\ UNCHANGED parVars

\* lines 98-108 and 165-177: every candidate is solved into its slot
SolveAll(perms, Wm, m) ==
    Tuple([p \in 1..Len(perms) |->
        mooore_penrose_solution(Wm, b_vector(perms[p], m, R, n0, K))])

SeedSolve ==
    /\ pc = "seed_enumerated"
    /\ \E out \in { SolveAll(PERMS_J, W_matrix, 3) } :
           /\ intersection_line' = [p \in 1..Len(out) |-> out[p][1]]
           /\ pinv_norm' = [p \in 1..Len(out) |-> out[p][2]]
    /\ pc' = "seed_solved"
    /\ UNCHANGED << error, Sn, xycoords, mp_tol, R, K, n0, k_length, PERMS_J,
                    W_matrix, intersections_ind, intersections_n, intersections,
                    intersections_integers, SURVIVORS, ii, k0, cutoff_ph_ang,
                    cap_intersections_of_slines >>
    /\ UNCHANGED parVars

\* line 118: np.where((pinv_norm < mp_tol) & (norm <= 2) & (norm != 0))
SeedIndexes(pn, lines, tol) ==
    Where([p \in 1..Len(pn) |->
              ResidualBelow(pn[p], tol) /\ NormInRange(NormSq(lines[p]))])

\* line 181: np.where(pinv_norm < mp_tol)
StageIndexes(pn, tol) ==
    Where([p \in 1..Len(pn) |-> ResidualBelow(pn[p], tol)])

\* lines 116-132: the survivors of the seed stage
SeedPrune ==
    /\ pc = "seed_solved"
    /\ \E ind \in { SeedIndexes(pinv_norm, intersection_line, mp_tol) } :
           /\ intersections_ind' = ind
           /\ intersections_n' = Len(ind)
           /\ intersections' = [s \in 1..Len(ind) |-> At(PERMS_J, ind[s])]
           /\ SURVIVORS' = [Zeros(Sn - 2) EXCEPT ![1] = Len(ind)]
           /\ intersections_integers' = integers_cal(R, intersection_line, ind)
    /\ ii' = 3
    /\ pc' = "loop"
    /\ UNCHANGED << error, Sn, xycoords, mp_tol, R, K, n0, k_length, PERMS_J,
                    W_matrix, pinv_norm, intersection_line, k0, cutoff_ph_ang,
                    cap_intersections_of_slines >>
    /\ UNCHANGED parVars

\* line 145 raises ValueError on int(nan); line 151 raises IndexError when
\* PERMS_J_base is an empty list, whose array has one dimension.
ExtendError ==
    IF At(k_length, ii) = NaN THEN "ValueError"
    ELSE IF Len(PERMS_J) = 0 THEN "IndexError" ELSE "none"

\* lines 138-163: the candidates of stage ii, W and the zeroed buffers
StageExtend ==
    /\ pc = "loop"
    /\ ii < Sn
    /\ IF ExtendError # "none"
       THEN /\ pc' = "crashed"
            /\ error' = ExtendError
            /\ UNCHANGED << PERMS_J, W_matrix, pinv_norm, intersection_line >>
       ELSE \E cands \in { permutations_create(PERMS_J, intersections_ind,
                                                 k_length, ii) } :
                /\ PERMS_J' = cands
                /\ W_matrix' = W_of(ii + 1, R)
                /\ pinv_norm' = Zeros(intersections_n * At(k_length, ii))
                /\ intersection_line' =
                       [p \in 1..(intersections_n * At(k_length, ii)) |->
                           <<0, 0, 0>>]
                /\ pc' = "extended"
                /\ error' = error
    /\ UNCHANGED << Sn, xycoords, mp_tol, R, K, n0, k_length, intersections_ind,
                    intersections_n, intersections, intersections_integers,
                    SURVIVORS, ii, k0, cutoff_ph_ang,
                    cap_intersections_of_slines >>
    /\ UNCHANGED parVars

\* lines 165-179: each pair (survivor, k) is flattened by np.hstack and solved
StageSolve ==
    /\ pc = "extended"
    /\ \E prime \in { Tuple([p \in 1..Len(PERMS_J) |->
                                 Append(PERMS_J[p][1], PERMS_J[p][2])]) } :
       \E out \in { SolveAll(prime, W_matrix, ii + 1) } :
           /\ PERMS_J' = prime
           /\ intersection_line' = [p \in 1..Len(out) |-> out[p][1]]
           /\ pinv_norm' = [p \in 1..Len(out) |-> out[p][2]]
    /\ pc' = "solved"
    /\ UNCHANGED << error, Sn, xycoords, mp_tol, R, K, n0, k_length, W_matrix,
                    intersections_ind, intersections_n, intersections,
                    intersections_integers, SURVIVORS, ii, k0, cutoff_ph_ang,
                    cap_intersections_of_slines >>
    /\ UNCHANGED parVars

\* lines 181-190: the survivors of stage ii; the loop moves to ii + 1
StagePrune ==
    /\ pc = "solved"
    /\ \E ind \in { StageIndexes(pinv_norm, mp_tol) } :
           /\ intersections_ind' = ind
           /\ intersections_n' = Len(ind)
           /\ intersections' = [s \in 1..Len(ind) |-> At(PERMS_J, ind[s])]
           /\ SURVIVORS' = [SURVIVORS EXCEPT ![ii - 1] = Len(ind)]
           /\ intersections_integers' = integers_cal(R, intersection_line, ind)
    /\ ii' = ii + 1
    /\ pc' = "loop"
    /\ UNCHANGED << error, Sn, xycoords, mp_tol, R, K, n0, k_length, PERMS_J,
                    W_matrix, pinv_norm, intersection_line, k0, cutoff_ph_ang,
                    cap_intersections_of_slines >>
    /\ UNCHANGED parVars

\* lines 192-194: the loop is over
LoopExit ==
    /\ pc = "loop"
    /\ ii >= Sn
    /\ pc' = "searched"
    /\ UNCHANGED << error, Sn, xycoords, mp_tol, R, K, n0, k_length, PERMS_J,
                    W_matrix, pinv_norm, intersection_line, intersections_ind,
                    intersections_n, intersections, intersections_integers,
                    SURVIVORS, ii, k0, cutoff_ph_ang,
                    cap_intersections_of_slines >>
    /\ UNCHANGED parVars

\* lines 197-204: the cap filter on the final survivors
CapFilter ==
    /\ pc = "searched"
    /\ \E kv \in K0Set, a \in Cutoffs :
          /\ k0' = kv
          /\ cutoff_ph_ang' = a
          /\ cap_intersections_of_slines' =
                 slines_intersections(kv, intersections_ind, intersection_line,
                                      SinScaled(a))
    /\ pc' = "done"
    /\ UNCHANGED << error, Sn, xycoords, mp_tol, R, K, n0, k_length, PERMS_J,
                    W_matrix, pinv_norm, intersection_line, intersections_ind,
                    intersections_n, intersections, intersections_integers,
                    SURVIVORS, ii >>
    /\ UNCHANGED parVars

Next ==
    \/ GeometryBuilder
    \/ LatticeBounds
    \/ SeedEnumerate
    \/ SeedSolve
    \/ SeedPrune
    \/ StageExtend
    \/ StageSolve
    \/ StagePrune
    \/ LoopExit
    \/ CapFilter

Spec == Init /\ [][Next]_vars

\* --------------------------------------- the search as a function of tol
\* lines 72-132 (m = 3) and one pass of lines 138-190 (m > 3) with the
\* tolerance tol in place of mp_tol: the candidates, the surviving indexes
\* and the survivors of the stage that solves baselines 0..m-1.
RECURSIVE StageRun(_, _)
StageRun(m, tol) ==
    IF m = 3
    THEN LET cands == SeedCandidates(k_length)
             out == SolveAll(cands, W_of(3, R), 3)
             ind == SeedIndexes(Tuple([p \in 1..Len(out) |-> out[p][2]]),
                                Tuple([p \in 1..Len(out) |-> out[p][1]]), tol)
         IN  [ perms |-> cands, ind |-> ind,
               survivors |-> Tuple([s \in 1..Len(ind) |-> At(cands, ind[s])]) ]
    ELSE LET prev == StageRun(m - 1, tol)
             pairs == permutations_create(prev.perms, prev.ind, k_length, m - 1)
             cands == Tuple([p \in 1..Len(pairs) |->
                                Append(pairs[p][1], pairs[p][2])])
             out == SolveAll(cands, W_of(m, R), m)
             ind == StageIndexes(Tuple([p \in 1..Len(out) |-> out[p][2]]), tol)
         IN  [ perms |-> cands, ind |-> ind,
               survivors |-> Tuple([s \in 1..Len(ind) |-> At(cands, ind[s])]) ]

\* tolerance a <= tolerance b
TolLeq(a, b) == a[1] * b[2] <= b[1] * a[2]

\* ====================================================================
\* Properties of mooore_penrose_solution_par
\* ====================================================================
JobSet(t) == RangeSet(<< threads[t].lo, threads[t].hi >>)

FannedOut == ppc \in {"join", "returned"}

\* C1: the index ranges handed to the workers are contiguous (each begins
\* where the previous one ended, the first at 0), pairwise disjoint, and
\* together cover exactly 0..niter-1; no slot is written by two workers, and
\* when the call returns every slot has been written by exactly one.
C1_RangesPartitionCandidates ==
    /\ \A t, u \in 1..Len(threads) : t # u => JobSet(t) \cap JobSet(u) = {}
    /\ \A t \in 1..Len(threads) :
          JobSet(t) # {} =>
              threads[t].lo = IF t = 1 THEN 0 ELSE threads[t - 1].hi
    /\ \A x \in 1..Len(writes) :
          /\ writes[x] <= 1
          /\ writes[x] = Cardinality({ t \in 1..Len(threads) :
                             x - 1 \in JobSet(t) /\ x - 1 < threads[t].ind })
    /\ FannedOut =>
          UNION { JobSet(t) : t \in 1..Len(threads) } = 0..(niter - 1)
    /\ ppc = "returned" => \A x \in 1..Len(writes) : writes[x] = 1

C1_Witness ==
    /\ ppc = "returned"
    /\ niter = 4
    /\ pnum = 3
    /\ \E t \in 1..Len(threads) : JobSet(t) = {}

\* C2: the call returns only after every thread it started has finished its
\* whole range: at the return no thread is running, each has gone through
\* its range, and every slot 0..niter-1 of both buffers has been written.
C2_ReturnsAfterAllWorkers ==
    ppc = "returned" =>
        /\ \A t \in 1..Len(threads) :
              /\ threads[t].st = "done"
              /\ threads[t].ind = Max(threads[t].lo, threads[t].hi)
        /\ \A x \in 1..niter : writes[x] >= 1

C2_Witness ==
    /\ ppc = "returned"
    /\ niter = 4
    /\ pnum = 2
    /\ \A x \in 1..niter : writes[x] >= 1

\* C3: after the call returns, the residual and the solution stored at each
\* candidate index equal what the sequential solver computes for the same W
\* and b_set[:, ind], so the surviving indexes derived from the buffers are
\* those derived from the sequential results, in the same order.
C3_ParallelEqualsSequential ==
    ppc = "returned" =>
        LET seq == [x \in 1..niter |-> mooore_penrose_solution(W, b_set[x])]
        IN  /\ \A x \in 1..niter :
                  /\ intersection_line_set[x] = seq[x][1]
                  /\ pinv_norm_set[x] = seq[x][2]
            /\ StageIndexes(pinv_norm_set, <<1, 10>>)
                   = StageIndexes([x \in 1..niter |-> seq[x][2]], <<1, 10>>)

C3_Witness ==
    /\ ppc = "returned"
    /\ niter = 4
    /\ pnum = 3
    /\ \E x, y \in 1..niter :
          /\ pinv_norm_set[x] = 0
          /\ pinv_norm_set[y] > 0
          /\ intersection_line_set[x] # <<0, 0, 0>>

\* C10: the fan-out terminates: the while loop runs at most one pass, pnum
\* threads are started when niter > 0 and none when niter = 0, every range
\* lies inside 0..niter-1, every worker finishes its range, and the call
\* returns.
C10_Safety ==
    /\ passes <= 1
    /\ Len(threads) <= pnum
    /\ \A t \in 1..Len(threads) : JobSet(t) \subseteq 0..(niter - 1)
    /\ FannedOut => Len(threads) = (IF niter > 0 THEN pnum ELSE 0)
    /\ ppc = "returned" => \A t \in 1..Len(threads) : threads[t].st = "done"

C10_FanOutTerminates == [](C10_Safety) /\ <>(ppc = "returned")

C10_Witness ==
    /\ ppc = "returned"
    /\ pnum > niter
    /\ niter > 0
    /\ Len(threads) = pnum
    /\ \E t \in 1..Len(threads) : JobSet(t) = {} /\ threads[t].st = "done"

\* C6: a failure raised inside a worker is propagated to the caller at the
\* join: the call never returns normally after a worker failed, nor with a
\* slot that a failed worker left unwritten.
C6_WorkerFailurePropagates ==
    ppc = "returned" =>
        /\ \A t \in 1..Len(threads) : threads[t].st # "failed"
        /\ \A x \in 1..niter : writes[x] >= 1

\* ====================================================================
\* Properties of the search
\* ====================================================================
\* C4: at every recursive stage the candidates are exactly the pairs
\* (survivor of the previous stage, k) with k in 1..k_length[ii], each once;
\* their number is (number of survivors) * k_length[ii]; and every candidate
\* extends a combination that passed the previous stage's test.
PassedStage(cand, m) ==
    LET out == mooore_penrose_solution(W_of(m, R), b_vector(cand, m, R, n0, K))
    IN  /\ out[2] * mp_tol[2] * mp_tol[2] < mp_tol[1] * mp_tol[1] * Scale * Scale
        /\ m = 3 => (NormSq(out[1]) > 0 /\ NormSq(out[1]) <= 4 * Scale * Scale)

C4_CandidatesExtendSurvivors ==
    /\ pc = "extended" =>
          /\ Len(PERMS_J) = intersections_n * At(k_length, ii)
          /\ Range(PERMS_J) = { << intersections[s], k >> :
                                  s \in 1..Len(intersections),
                                  k \in 1..At(k_length, ii) }
          /\ Cardinality(Range(PERMS_J)) = Len(PERMS_J)
          /\ Cardinality(Range(intersections)) = intersections_n
          /\ \A p \in 1..Len(PERMS_J) : PassedStage(PERMS_J[p][1], ii)
    /\ pc = "solved" =>
          /\ Len(PERMS_J) = intersections_n * At(k_length, ii)
          /\ Range(PERMS_J) = { Append(intersections[s], k) :
                                  s \in 1..Len(intersections),
                                  k \in 1..At(k_length, ii) }
          /\ Cardinality(Range(PERMS_J)) = Len(PERMS_J)

C4_Witness ==
    /\ pc = "solved"
    /\ ii = 3
    /\ intersections_n >= 2
    /\ At(k_length, ii) = 5
    /\ Len(PERMS_J) = 5 * intersections_n

\* C5: a candidate of the seed stage survives iff its residual is < tol and
\* the norm of its solution is in (0, 2]; a candidate of a later stage
\* survives iff its residual is < tol.  The surviving indexes are exactly
\* those, ascending; the number is their count; the permutations are the
\* candidates at those indexes; and intersections_cal returns the same.
C5_Passes(p) ==
    /\ pinv_norm[p] * mp_tol[2] * mp_tol[2] < mp_tol[1] * mp_tol[1] * Scale * Scale
    /\ ii = 3 =>
          /\ NormSq(intersection_line[p]) > 0
          /\ NormSq(intersection_line[p]) <= 4 * Scale * Scale

InvalidGeometry ==
    Sn < 3 \/ \E j \in 1..Sn : xycoords[j] = <<0, 0>>

C7_InvalidGeometryRejected ==
    InvalidGeometry =>
        /\ R = << >>
        /\ K = << >>
        /\ pc \in {"start", "crashed"}
        /\ pc = "crashed" => error = "InvalidGeometryError"

\* C8: the cap filter returns exactly the positions p in
\* 0..len(intersections_ind)-1 whose survivor lies at planar distance
\* d <= sin(cutoff) from (k0_x, k0_y), ascending; with cutoff pi/2 those with
\* d <= 1, with cutoff 0 those whose (s_x, s_y) equals (k0_x, k0_y).
C8_DistSq(p) ==
    LET sl == At(intersection_line, At(intersections_ind, p))
    IN  (k0[1] - sl[1]) * (k0[1] - sl[1]) + (k0[2] - sl[2]) * (k0[2] - sl[2])

C8_CapFilter ==
    pc = "done" =>
        /\ Range(cap_intersections_of_slines) \subseteq 0..(Len(intersections_ind) - 1)
        /\ \A s \in 1..(Len(cap_intersections_of_slines) - 1) :
              cap_intersections_of_slines[s] < cap_intersections_of_slines[s + 1]
        /\ \A p \in 0..(Len(intersections_ind) - 1) :
              /\ (p \in Range(cap_intersections_of_slines)) <=>
                     /\ SinScaled(cutoff_ph_ang) >= 0
                     /\ C8_DistSq(p) <= SinScaled(cutoff_ph_ang) * SinScaled(cutoff_ph_ang)
              /\ cutoff_ph_ang = "pi/2" =>
                     ((p \in Range(cap_intersections_of_slines)) <=>
                          C8_DistSq(p) <= Scale * Scale)
              /\ cutoff_ph_ang = "0" =>
                     ((p \in Range(cap_intersections_of_slines)) <=>
                          /\ At(intersection_line, At(intersections_ind, p))[1] = k0[1]
                          /\ At(intersection_line, At(intersections_ind, p))[2] = k0[2])

C8_Witness ==
    /\ pc = "done"
    /\ cutoff_ph_ang = "pi/2"
    /\ Len(cap_intersections_of_slines) > 0
    /\ Len(cap_intersections_of_slines) < Len(intersections_ind)
    /\ \E s \in 1..Len(cap_intersections_of_slines) :
          cap_intersections_of_slines[s] # At(intersections_ind, cap_intersections_of_slines[s])

====
